---- MODULE Spec2Model ----
(***************************************************************************)
(* Model of curated_transformers/util/serde.py: loading checkpoint shards  *)
(* into a destination model through deserialization buckets, a state dict  *)
(* converter and the module tree walker.                                   *)
(*                                                                         *)
(* Strings that the code inspects (keys, prefixes, fragments) are          *)
(* sequences of one-character strings, so that `in`, startswith and        *)
(* f-string concatenation are computed as Python computes them.            *)
(* A Python dict is a sequence of [k, v] records in insertion order.       *)
(* A tensor is [src, shape, dtype, rg]: src is the set of checkpoint keys  *)
(* its data comes from (empty for the tensors the model is built with),    *)
(* rg the requires_grad flag (FALSE for plain tensors).                    *)
(***************************************************************************)
EXTENDS Integers, Sequences, FiniteSets, TLC

VARIABLES
    pc,                       \* position in load_model_from_checkpoints
    error,                    \* [kind, name]: the exception raised, kind "none" while running
    nread,                    \* number of shards the generator has yielded
    state_dict,               \* pairs of the current shard not yet sorted into a bucket
    default_bucket,           \* DefaultParamBucket (a dict)
    deserialization_buckets,  \* list of RegExParameterBucket: [pattern, expected_keys, items]
    bi,                       \* index of the bucket the "for bucket in ..." loop is at
    seen_keys,                \* Set[str]
    module_keys,              \* snapshot of model.state_dict().keys()
    model,                    \* module prefix -> [_parameters, _buffers, _non_persistent_buffers_set]
    tensor_to_param_converter,\* "default" (None was passed) or "custom"
    converted,                \* what the state_dict_converter call just made returned
    batch,                    \* [from, items, walked]: the bucket (0: the default bucket)
                              \* and the state dict of the state_dict_converter call just
                              \* made, and whether the module tree was walked after it
    produced,                 \* destination key -> [n, tensor]: the number of converter calls
                              \* that output it, and the tensor the latest one gave it
    state_dicts,              \* the generator over the checkpoint files: [given, rest]
    split_run                 \* [done, combined, ...]: the outcome of the load from the
                              \* split shards, kept to compare the load from the combined one

vars == <<pc, error, nread, state_dict, default_bucket, deserialization_buckets, bi,
          seen_keys, module_keys, model, tensor_to_param_converter, converted, batch,
          produced, state_dicts, split_run>>

\* Bounds of the exploration: the number of checkpoint files of a load and
\* the number of tensors in a file.
MaxShards == 2
MaxShardLen == 3

-----------------------------------------------------------------------------
\* Strings

DOT == <<".">>

\* Python `sub in s`
IsSubstring(sub, s) ==
    \E i \in 0..(Len(s) - Len(sub)) : SubSeq(s, i + 1, i + Len(sub)) = sub

\* Python `s.startswith(p)`
StartsWith(s, p) == Len(p) <= Len(s) /\ SubSeq(s, 1, Len(p)) = p

-----------------------------------------------------------------------------
\* Dicts (insertion ordered)

Keys(d) == {d[i].k : i \in DOMAIN d}

Get(d, key) == (CHOOSE i \in DOMAIN d : d[i].k = key) \* index of key
Val(d, key) == d[Get(d, key)].v

\* d[key] = value
Put(d, key, value) ==
    IF key \in Keys(d)
      THEN [d EXCEPT ![Get(d, key)].v = value]
      ELSE Append(d, [k |-> key, v |-> value])

-----------------------------------------------------------------------------
\* Tensors

F32 == "float32"
F16 == "float16"
INT8 == "int8"

Tensor(src, shape, dtype) == [src |-> src, shape |-> shape, dtype |-> dtype, rg |-> FALSE]
\* torch.nn.Parameter(tensor, requires_grad=rg)
Parameter(tensor, rg) == [tensor EXCEPT !.rg = rg]
\* Python None in a parameter or buffer slot
None == [src |-> {}, shape |-> <<>>, dtype |-> "None", rg |-> FALSE]

NoError == [kind |-> "none", name |-> <<>>]
Raise(kind, name) == [kind |-> kind, name |-> name]

-----------------------------------------------------------------------------
\* Buckets

\* RegExParameterBucket(pattern, expected_keys): the pattern is an alternation
\* of literals, given as the set of its alternatives.
RegExParameterBucket(pattern, expected_keys) ==
    [pattern |-> pattern, expected_keys |-> expected_keys, items |-> <<>>]

\* RegExParameterBucket.match: key_matcher.search(param_key) is not None
match(bucket, param_key) ==
    \E alt \in bucket.pattern : IsSubstring(alt, param_key)

\* ready without its loop over the expected keys: the sizes alone decide
ready_SizeOnly(bucket) ==
    Cardinality(bucket.expected_keys) = Len(bucket.items)

\* ready without its first test: the sizes are not compared
ready_NoSizeTest(bucket) ==
    LET seen == Cardinality({expected \in bucket.expected_keys :
                   \E key \in Keys(bucket.items) : IsSubstring(expected, key)})
    IN  seen = Cardinality(bucket.expected_keys)

\* RegExParameterBucket.ready
ready(bucket) ==
    IF Cardinality(bucket.expected_keys) # Len(bucket.items)
      THEN FALSE
      ELSE LET seen == Cardinality({expected \in bucket.expected_keys :
                          \E key \in Keys(bucket.items) : IsSubstring(expected, key)})
           IN  seen = Cardinality(bucket.expected_keys)

\* clear that leaves the pairs in the bucket
clear_Keeps(bucket) == bucket

\* bucket.clear()
clear(bucket) == [bucket EXCEPT !.items = <<>>]

-----------------------------------------------------------------------------
\* The state dict converter passed by the caller: the checkpoint's root "x"
\* becomes the model's root "m", and the split projections q and k are fused
\* (concatenated along the first dimension) into one parameter "m.a.q".

FusedNames == {<<"q">>, <<"k">>}

ConvertKey(key) ==
    LET name == SubSeq(key, 3, Len(key))
    IN  IF name \in FusedNames
          THEN <<"m", ".", "a", ".", "q">>
          ELSE <<"m", ".">> \o name

\* torch.cat([a, b], dim=0)
Cat(a, b) ==
    [src |-> a.src \cup b.src, shape |-> <<a.shape[1] + b.shape[1]>> \o Tail(a.shape),
     dtype |-> a.dtype, rg |-> FALSE]

RECURSIVE ConvertFrom(_, _, _)
ConvertFrom(sd, i, out) ==
    IF i > Len(sd) THEN out
    ELSE LET key == ConvertKey(sd[i].k)
             val == IF key \in Keys(out) THEN Cat(Val(out, key), sd[i].v) ELSE sd[i].v
         IN  ConvertFrom(sd, i + 1, Put(out, key, val))

state_dict_converter(sd) == ConvertFrom(sd, 1, <<>>)

-----------------------------------------------------------------------------
\* Replacing the tensors of the destination model

\* _validate_replacement without its elif: the dtypes are not compared
_validate_replacement_ShapeOnly(replaced, replacement, name) ==
    IF replaced.shape # replacement.shape
      THEN Raise("shape_mismatch", name)
      ELSE NoError

\* _validate_replacement: the exception it raises, or NoError
_validate_replacement(replaced, replacement, name) ==
    IF replaced.shape # replacement.shape
      THEN Raise("shape_mismatch", name)
    ELSE IF replaced.dtype # replacement.dtype
      THEN Raise("dtype_mismatch", name)
    ELSE NoError

\* default_tensor_to_parameter_converter: [err, value]
default_tensor_to_parameter_converter(module, module_prefix, parameter_name, tensor) ==
    LET old_param == Val(module._parameters, parameter_name)
    IN  [err   |-> _validate_replacement(old_param, tensor, module_prefix),
         value |-> Parameter(tensor, old_param.rg)]

\* A converter passed by the caller (the docstring's example: loading
\* quantized weights): it does not validate and stores the data as int8.
custom_tensor_to_parameter_converter(module, module_prefix, parameter_name, tensor) ==
    [err |-> NoError, value |-> Parameter([tensor EXCEPT !.dtype = INT8], FALSE)]

\* _emplace_module_tensor whose buffer branch validates the replacement and
\* then stores old_buffer back
_emplace_module_tensor_KeepsBuffer(module, module_prefix, tensor_name, replacement_tensor, converter) ==
    LET is_parameter == tensor_name \in Keys(module._parameters)
    IN  IF is_parameter
          THEN LET r == IF converter = "default"
                          THEN default_tensor_to_parameter_converter(
                                   module, module_prefix, tensor_name, replacement_tensor)
                          ELSE custom_tensor_to_parameter_converter(
                                   module, module_prefix, tensor_name, replacement_tensor)
               IN  IF r.err # NoError
                     THEN [err |-> r.err, module |-> module, invoked |-> TRUE]
                     ELSE [err |-> NoError, invoked |-> TRUE,
                           module |-> [module EXCEPT !._parameters =
                                          Put(@, tensor_name, r.value)]]
          ELSE [err |-> _validate_replacement(Val(module._buffers, tensor_name),
                                              replacement_tensor,
                                              module_prefix \o DOT \o tensor_name),
                module |-> module, invoked |-> FALSE]

\* _emplace_module_tensor passing buffers to tensor_to_param_converter as well
_emplace_module_tensor_ConvertsBuffers(module, module_prefix, tensor_name, replacement_tensor, converter) ==
    LET is_parameter == tensor_name \in Keys(module._parameters)
        slots == IF is_parameter THEN module._parameters ELSE module._buffers
        asParameters == [module EXCEPT !._parameters = slots]
        r == IF converter = "default"
               THEN default_tensor_to_parameter_converter(
                        asParameters, module_prefix, tensor_name, replacement_tensor)
               ELSE custom_tensor_to_parameter_converter(
                        asParameters, module_prefix, tensor_name, replacement_tensor)
    IN  IF r.err # NoError
          THEN [err |-> r.err, module |-> module, invoked |-> TRUE]
        ELSE IF is_parameter
          THEN [err |-> NoError, invoked |-> TRUE,
                module |-> [module EXCEPT !._parameters = Put(@, tensor_name, r.value)]]
        ELSE [err |-> NoError, invoked |-> TRUE,
              module |-> [module EXCEPT !._buffers = Put(@, tensor_name, r.value)]]

\* _emplace_module_tensor: [err, module, invoked]; invoked tells whether
\* tensor_to_param_converter was called
_emplace_module_tensor(module, module_prefix, tensor_name, replacement_tensor, converter) ==
    LET is_parameter == tensor_name \in Keys(module._parameters)
    IN  IF is_parameter
          THEN LET r == IF converter = "default"
                          THEN default_tensor_to_parameter_converter(
                                   module, module_prefix, tensor_name, replacement_tensor)
                          ELSE custom_tensor_to_parameter_converter(
                                   module, module_prefix, tensor_name, replacement_tensor)
               IN  IF r.err # NoError
                     THEN [err |-> r.err, module |-> module, invoked |-> TRUE]
                     ELSE [err |-> NoError, invoked |-> TRUE,
                           module |-> [module EXCEPT !._parameters =
                                          Put(@, tensor_name, r.value)]]
          ELSE LET old_buffer == Val(module._buffers, tensor_name)
                   e == _validate_replacement(old_buffer, replacement_tensor,
                                              module_prefix \o DOT \o tensor_name)
               IN  IF e # NoError
                     THEN [err |-> e, module |-> module, invoked |-> FALSE]
                     ELSE [err |-> NoError, invoked |-> FALSE,
                           module |-> [module EXCEPT !._buffers =
                                          Put(@, tensor_name, replacement_tensor)]]

\* LocalParamsAndBuffers with the test of _non_persistent_buffers_set inverted:
\* the non-persistent buffers are taken and the persistent ones left out
RECURSIVE LocalParamsAndBuffers_Inverted(_, _, _)
LocalParamsAndBuffers_Inverted(module, i, local) ==
    IF i > Len(module._buffers) THEN [err |-> NoError, local |-> local]
    ELSE LET name == module._buffers[i].k
         IN  IF name \in Keys(local)
               THEN [err |-> Raise("param_and_buffer", name), local |-> local]
             ELSE IF name \in module._non_persistent_buffers_set
               THEN LocalParamsAndBuffers_Inverted(module, i + 1,
                                                   Put(local, name, module._buffers[i].v))
             ELSE LocalParamsAndBuffers_Inverted(module, i + 1, local)

\* The first loop of apply: dict(_parameters) extended by the persistent buffers.
RECURSIVE LocalParamsAndBuffers(_, _, _)
LocalParamsAndBuffers(module, i, local) ==
    IF i > Len(module._buffers) THEN [err |-> NoError, local |-> local]
    ELSE LET name == module._buffers[i].k
         IN  IF name \in Keys(local)
               THEN [err |-> Raise("param_and_buffer", name), local |-> local]
             ELSE IF name \notin module._non_persistent_buffers_set
               THEN LocalParamsAndBuffers(module, i + 1, Put(local, name, module._buffers[i].v))
             ELSE LocalParamsAndBuffers(module, i + 1, local)

\* The second loop of apply, from the i-th local name on: [err, module]
RECURSIVE EmplaceLocals(_, _, _, _, _, _)
EmplaceLocals(module, prefix, local, i, candidate_tensors, converter) ==
    IF i > Len(local) THEN [err |-> NoError, module |-> module]
    ELSE LET name == local[i].k
             key == prefix \o DOT \o name
         IN  IF key \notin Keys(candidate_tensors)
               THEN EmplaceLocals(module, prefix, local, i + 1, candidate_tensors, converter)
             ELSE IF local[i].v = None
               THEN [err |-> Raise("no_data", name), module |-> module]
             ELSE LET r == _emplace_module_tensor(module, prefix, name,
                                                  Val(candidate_tensors, key), converter)
                  IN  IF r.err # NoError THEN [err |-> r.err, module |-> r.module]
                      ELSE EmplaceLocals(r.module, prefix, local, i + 1,
                                         candidate_tensors, converter)

\* apply raising for a candidate key that names a tensor of this module (no
\* further dot after the prefix) which is not among local_params_and_buffers
apply_OrphanRaises(module, prefix, sd, converter) ==
    LET prefix_with_dot == prefix \o DOT
        candidate_tensors == SelectSeq(sd, LAMBDA e : StartsWith(e.k, prefix_with_dot))
        l == LocalParamsAndBuffers(module, 1, module._parameters)
        orphans == SelectSeq(candidate_tensors, LAMBDA e :
                      /\ ~IsSubstring(DOT, SubSeq(e.k, Len(prefix_with_dot) + 1, Len(e.k)))
                      /\ SubSeq(e.k, Len(prefix_with_dot) + 1, Len(e.k)) \notin Keys(l.local))
    IN  IF Len(candidate_tensors) = 0 THEN [err |-> NoError, module |-> module]
        ELSE IF l.err # NoError THEN [err |-> l.err, module |-> module]
        ELSE IF Len(orphans) # 0
          THEN [err |-> Raise("orphaned_key", orphans[1].k), module |-> module]
        ELSE EmplaceLocals(module, prefix, l.local, 1, candidate_tensors, converter)

\* apply(itr) of _emplace_module_state_dict: [err, module]
apply(module, prefix, sd, converter) ==
    LET prefix_with_dot == prefix \o DOT
        candidate_tensors == SelectSeq(sd, LAMBDA e : StartsWith(e.k, prefix_with_dot))
    IN  IF Len(candidate_tensors) = 0 THEN [err |-> NoError, module |-> module]
        ELSE LET l == LocalParamsAndBuffers(module, 1, module._parameters)
             IN  IF l.err # NoError THEN [err |-> l.err, module |-> module]
                 ELSE EmplaceLocals(module, prefix, l.local, 1, candidate_tensors, converter)

\* The modules of the destination model in the order apply_to_module visits them.
ModuleOrder == << <<"m">>, <<"m", ".", "a">> >>

\* apply_to_module(module, apply), from the i-th module on: [err, model]
RECURSIVE apply_to_module(_, _, _, _)
apply_to_module(mdl, i, sd, converter) ==
    IF i > Len(ModuleOrder) THEN [err |-> NoError, model |-> mdl]
    ELSE LET prefix == ModuleOrder[i]
             r == apply(mdl[prefix], prefix, sd, converter)
         IN  IF r.err # NoError
               THEN [err |-> r.err, model |-> [mdl EXCEPT ![prefix] = r.module]]
               ELSE apply_to_module([mdl EXCEPT ![prefix] = r.module], i + 1, sd, converter)

\* _emplace_module_state_dict: [err, model]
_emplace_module_state_dict(mdl, sd, converter) == apply_to_module(mdl, 1, sd, converter)

\* convert_and_load_state_dict assigning the converted keys to seen_keys where
\* it should add them
convert_and_load_state_dict_Assigns(sd, seen, mdl, converter) ==
    LET conv == state_dict_converter(sd)
    IN  IF Len(conv) = 0
          THEN [err |-> NoError, seen_keys |-> seen, model |-> mdl, converted |-> conv,
                walked |-> FALSE]
          ELSE LET r == _emplace_module_state_dict(mdl, conv, converter)
               IN  [err |-> r.err, seen_keys |-> Keys(conv),
                    model |-> r.model, converted |-> conv, walked |-> TRUE]

\* convert_and_load_state_dict without its "if len(converted) == 0: return"
convert_and_load_state_dict_NoEarlyReturn(sd, seen, mdl, converter) ==
    LET conv == state_dict_converter(sd)
        r == _emplace_module_state_dict(mdl, conv, converter)
    IN  [err |-> r.err, seen_keys |-> seen \cup Keys(conv),
         model |-> r.model, converted |-> conv, walked |-> TRUE]

\* convert_and_load_state_dict: [err, seen_keys, model, converted, walked];
\* walked tells whether _emplace_module_state_dict was called
convert_and_load_state_dict(sd, seen, mdl, converter) ==
    LET conv == state_dict_converter(sd)
    IN  IF Len(conv) = 0
          THEN [err |-> NoError, seen_keys |-> seen, model |-> mdl, converted |-> conv,
                walked |-> FALSE]
          ELSE LET r == _emplace_module_state_dict(mdl, conv, converter)
               IN  [err |-> r.err, seen_keys |-> seen \cup Keys(conv),
                    model |-> r.model, converted |-> conv, walked |-> TRUE]

\* model.state_dict().keys(): parameters and persistent buffers that hold data
StateDictKeys(mdl) ==
    UNION {  {p \o DOT \o mdl[p]._parameters[i].k :
                 i \in {j \in DOMAIN mdl[p]._parameters : mdl[p]._parameters[j].v # None}}
        \cup {p \o DOT \o mdl[p]._buffers[i].k :
                 i \in {j \in DOMAIN mdl[p]._buffers :
                          /\ mdl[p]._buffers[j].v # None
                          /\ mdl[p]._buffers[j].k \notin mdl[p]._non_persistent_buffers_set}}
        : p \in DOMAIN mdl }

-----------------------------------------------------------------------------
\* The inputs of a load

\* The destination model: module "m" with parameter w, a registered but empty
\* parameter n, persistent buffer b and non-persistent buffer r, and its
\* submodule "m.a" with the fused projection q.
DestinationModel ==
    (<<"m">> :> [_parameters |-> << [k |-> <<"w">>, v |-> Parameter(Tensor({}, <<4, 4>>, F32), TRUE)],
                                     [k |-> <<"n">>, v |-> None] >>,
                 _buffers |-> << [k |-> <<"b">>, v |-> Tensor({}, <<4, 4>>, F32)],
                                  [k |-> <<"r">>, v |-> Tensor({}, <<1>>, F32)] >>,
                 _non_persistent_buffers_set |-> {<<"r">>}])
    @@
    (<<"m", ".", "a">> :>
                [_parameters |-> << [k |-> <<"q">>, v |-> Parameter(Tensor({}, <<4, 4>>, F32), TRUE)] >>,
                 _buffers |-> <<>>,
                 _non_persistent_buffers_set |-> {}])

\* The (key, tensor) pairs a checkpoint file may hold, in the order the
\* checkpoint writer stores them.
Entry(name, shape, dtype) ==
    LET key == <<"x", ".">> \o name
    IN  [k |-> key, v |-> Tensor({key}, shape, dtype)]

Entries ==
    << Entry(<<"a", ".", "q">>, <<4, 4>>, F32),
       Entry(<<"q">>, <<2, 4>>, F32), Entry(<<"w">>, <<4, 4>>, F32),
       Entry(<<"r">>, <<1>>, F32),
       Entry(<<"k">>, <<2, 4>>, F32), Entry(<<"b">>, <<4, 4>>, F32),
       Entry(<<"b">>, <<4, 4>>, F16), Entry(<<"n">>, <<4, 4>>, F32) >>

\* The entries at the chosen places, in file order
RECURSIVE Pick(_, _)
Pick(places, i) ==
    IF i > Len(Entries) THEN <<>>
    ELSE (IF i \in places THEN <<Entries[i]>> ELSE <<>>) \o Pick(places, i + 1)

\* A shard is a dict: its keys are distinct.
Shards ==
    { Pick(places, 1) : places \in
        { ps \in SUBSET DOMAIN Entries :
            /\ Cardinality(ps) <= MaxShardLen
            /\ \A i, j \in ps : i # j => Entries[i].k # Entries[j].k } }

QK  == RegExParameterBucket({<<"q">>, <<"k">>}, {<<"q">>, <<"k">>})
KR  == RegExParameterBucket({<<"k">>, <<"r">>}, {<<"r">>})
AQ  == RegExParameterBucket({<<"q">>, <<"w">>}, {<<"a">>, <<"q">>})

BucketConfigs == { <<>>, <<QK>>, <<QK, KR>>, <<AQ>> }

Converters == {"default", "custom"}

-----------------------------------------------------------------------------
\* load_model_from_checkpoints

\* No state_dict_converter call was made in the step
NoCall == [from |-> -1, items |-> <<>>, walked |-> FALSE]
Call(from, items, walked) == [from |-> from, items |-> items, walked |-> walked]

\* The checkpoint files are opened one by one as the loop asks for them; their
\* contents are drawn when they are read.
Lazy == [given |-> FALSE, rest |-> <<>>]
\* The checkpoint files are known beforehand.
Given(shards) == [given |-> TRUE, rest |-> shards]

NoSplitRun == [done |-> FALSE, shards |-> <<>>, combined |-> <<>>, pc |-> "",
               error |-> NoError, model |-> <<>>, seen_keys |-> {}]

\* The state on entry, up to the first "for state_dict in state_dicts"
Start ==
    /\ pc = "for_state_dict"
    /\ error = NoError
    /\ nread = 0
    /\ state_dict = <<>>
    /\ default_bucket = <<>>
    /\ bi = 1
    /\ seen_keys = {}
    /\ model = DestinationModel
    /\ module_keys = StateDictKeys(DestinationModel)
    /\ converted = <<>>
    /\ batch = NoCall
    /\ produced = <<>>

Init ==
    /\ Start
    /\ deserialization_buckets \in BucketConfigs
    /\ tensor_to_param_converter \in Converters
    /\ state_dicts = Lazy
    /\ split_run = NoSplitRun

\* produced, after one more converter call returned conv
Count(prod, conv) ==
    [key \in DOMAIN prod \cup Keys(conv) |->
        IF key \in Keys(conv)
          THEN [n |-> (IF key \in DOMAIN prod THEN prod[key].n ELSE 0) + 1,
                tensor |-> Val(conv, key)]
          ELSE prod[key]]

\* for state_dict in state_dicts: the generator loads the next checkpoint
LoadStateDict ==
    /\ pc = "for_state_dict"
    /\ IF state_dicts.given
         THEN /\ state_dicts.rest # <<>>
              /\ state_dict' = Head(state_dicts.rest)
              /\ state_dicts' = [state_dicts EXCEPT !.rest = Tail(@)]
         ELSE /\ nread < MaxShards
              /\ \E sd \in Shards : state_dict' = sd
              /\ UNCHANGED state_dicts
    /\ pc' = IF Len(state_dict') = 0 THEN "convert_default" ELSE "sort"
    /\ nread' = nread + 1
    /\ converted' = <<>>
    /\ batch' = NoCall
    /\ UNCHANGED <<error, default_bucket, deserialization_buckets, bi, seen_keys,
                   module_keys, model, tensor_to_param_converter, produced, split_run>>

\* for state_dict in state_dicts: the generator is exhausted
Exhausted ==
    /\ pc = "for_state_dict"
    /\ state_dicts.given => state_dicts.rest = <<>>
    /\ pc' = "check"
    /\ converted' = <<>>
    /\ batch' = NoCall
    /\ UNCHANGED <<error, nread, state_dict, default_bucket, deserialization_buckets, bi,
                   seen_keys, module_keys, model, tensor_to_param_converter, produced,
                   state_dicts, split_run>>

\* sort_into_buckets with "elif num_matching_buckets >= 1": the first bucket
\* that matches takes the key and nothing is raised
sort_into_buckets_FirstMatch(buckets, dflt, name, param) ==
    LET matching_buckets == SelectSeq([i \in DOMAIN buckets |-> i],
                                      LAMBDA i : match(buckets[i], name))
    IN  IF Len(matching_buckets) = 0
          THEN [err |-> NoError, buckets |-> buckets, default_bucket |-> Put(dflt, name, param)]
          ELSE [err |-> NoError,
                buckets |-> [buckets EXCEPT ![matching_buckets[1]].items = Put(@, name, param)],
                default_bucket |-> dflt]

\* sort_into_buckets storing the pair in every bucket that matches, where it
\* should raise for more than one
sort_into_buckets_AllMatching(buckets, dflt, name, param) ==
    LET matching_buckets == SelectSeq([i \in DOMAIN buckets |-> i],
                                      LAMBDA i : match(buckets[i], name))
    IN  IF Len(matching_buckets) = 0
          THEN [err |-> NoError, buckets |-> buckets, default_bucket |-> Put(dflt, name, param)]
          ELSE [err |-> NoError,
                buckets |-> [i \in DOMAIN buckets |->
                               IF match(buckets[i], name)
                                 THEN [buckets[i] EXCEPT !.items = Put(@, name, param)]
                                 ELSE buckets[i]],
                default_bucket |-> dflt]

\* The body of "for name, param in state_dict.items()": [err, buckets, default_bucket]
sort_into_buckets(buckets, dflt, name, param) ==
    LET matching_buckets == SelectSeq([i \in DOMAIN buckets |-> i],
                                      LAMBDA i : match(buckets[i], name))
        num_matching_buckets == Len(matching_buckets)
    IN  IF num_matching_buckets = 0
          THEN [err |-> NoError, buckets |-> buckets, default_bucket |-> Put(dflt, name, param)]
        ELSE IF num_matching_buckets = 1
          THEN [err |-> NoError,
                buckets |-> [buckets EXCEPT ![matching_buckets[1]].items = Put(@, name, param)],
                default_bucket |-> dflt]
        ELSE [err |-> Raise("multiple_buckets", name),
              buckets |-> buckets, default_bucket |-> dflt]

\* SortIntoBucket leaving the loop over the pairs after the first pair: the
\* conversions start while pairs of the shard are still unsorted
SortIntoBucket_ConvertsEarly ==
    /\ pc = "sort"
    /\ LET r == sort_into_buckets(deserialization_buckets, default_bucket,
                                  Head(state_dict).k, Head(state_dict).v)
       IN  /\ error' = r.err
           /\ deserialization_buckets' = r.buckets
           /\ default_bucket' = r.default_bucket
           /\ pc' = IF r.err # NoError THEN "raised" ELSE "convert_default"
    /\ state_dict' = Tail(state_dict)
    /\ UNCHANGED <<nread, bi, seen_keys, module_keys, model, tensor_to_param_converter,
                   converted, batch, produced, state_dicts, split_run>>

\* SortIntoBucket converting and installing at once a pair that no bucket
\* matches, where it should keep it in the default bucket until the shard is
\* sorted
SortIntoBucket_Streams ==
    /\ pc = "sort"
    /\ LET r == sort_into_buckets(deserialization_buckets, <<>>,
                                  Head(state_dict).k, Head(state_dict).v)
           c == convert_and_load_state_dict(r.default_bucket, seen_keys, model,
                                            tensor_to_param_converter)
       IN  /\ error' = IF r.err # NoError THEN r.err ELSE c.err
           /\ deserialization_buckets' = r.buckets
           /\ seen_keys' = c.seen_keys
           /\ model' = c.model
           /\ produced' = Count(produced, c.converted)
           /\ pc' = IF error' # NoError THEN "raised"
                    ELSE IF Len(state_dict) = 1 THEN "convert_default" ELSE "sort"
    /\ state_dict' = Tail(state_dict)
    /\ UNCHANGED <<nread, bi, default_bucket, module_keys, tensor_to_param_converter,
                   converted, batch, state_dicts, split_run>>

\* One iteration of "for name, param in state_dict.items()"
SortIntoBucket ==
    /\ pc = "sort"
    /\ LET r == sort_into_buckets(deserialization_buckets, default_bucket,
                                  Head(state_dict).k, Head(state_dict).v)
       IN  /\ error' = r.err
           /\ deserialization_buckets' = r.buckets
           /\ default_bucket' = r.default_bucket
           /\ pc' = IF r.err # NoError THEN "raised"
                    ELSE IF Len(state_dict) = 1 THEN "convert_default" ELSE "sort"
    /\ state_dict' = Tail(state_dict)
    /\ UNCHANGED <<nread, bi, seen_keys, module_keys, model, tensor_to_param_converter,
                   converted, batch, produced, state_dicts, split_run>>

\* ConvertDefaultBucket going on to the next shard without the loop over the
\* configured buckets
ConvertDefaultBucket_SkipsBuckets ==
    /\ pc = "convert_default"
    /\ LET r == convert_and_load_state_dict(default_bucket, seen_keys, model,
                                            tensor_to_param_converter)
       IN  /\ seen_keys' = r.seen_keys
           /\ model' = r.model
           /\ converted' = r.converted
           /\ batch' = Call(0, default_bucket, r.walked)
           /\ produced' = Count(produced, r.converted)
           /\ error' = r.err
           /\ IF r.err # NoError
                THEN /\ pc' = "raised"
                     /\ UNCHANGED <<default_bucket, bi>>
                ELSE /\ default_bucket' = <<>>
                     /\ bi' = 1
                     /\ pc' = "for_state_dict"
    /\ UNCHANGED <<nread, state_dict, deserialization_buckets, module_keys,
                   tensor_to_param_converter, state_dicts, split_run>>

\* convert_and_load_state_dict(default_bucket, seen_keys); default_bucket.clear()
ConvertDefaultBucket ==
    /\ pc = "convert_default"
    /\ LET r == convert_and_load_state_dict(default_bucket, seen_keys, model,
                                            tensor_to_param_converter)
       IN  /\ seen_keys' = r.seen_keys
           /\ model' = r.model
           /\ converted' = r.converted
           /\ batch' = Call(0, default_bucket, r.walked)
           /\ produced' = Count(produced, r.converted)
           /\ error' = r.err
           /\ IF r.err # NoError
                THEN /\ pc' = "raised"
                     /\ UNCHANGED <<default_bucket, bi>>
                ELSE /\ default_bucket' = <<>>
                     /\ bi' = 1
                     /\ pc' = IF Len(deserialization_buckets) = 0
                                THEN "for_state_dict" ELSE "buckets"
    /\ UNCHANGED <<nread, state_dict, deserialization_buckets, module_keys,
                   tensor_to_param_converter, state_dicts, split_run>>

\* ProcessBucket with bucket.clear() moved out of the "if bucket.ready()": a
\* bucket that is not ready is emptied
ProcessBucket_ClearsUnready ==
    /\ pc = "buckets"
    /\ LET bucket == deserialization_buckets[bi]
           after == IF bi = Len(deserialization_buckets) THEN "for_state_dict" ELSE "buckets"
       IN  IF ready(bucket)
             THEN LET r == convert_and_load_state_dict(bucket.items, seen_keys, model,
                                                       tensor_to_param_converter)
                  IN  /\ seen_keys' = r.seen_keys
                      /\ model' = r.model
                      /\ converted' = r.converted
                      /\ batch' = Call(bi, bucket.items, r.walked)
                      /\ produced' = Count(produced, r.converted)
                      /\ error' = r.err
                      /\ IF r.err # NoError
                           THEN /\ pc' = "raised"
                                /\ UNCHANGED <<deserialization_buckets, bi>>
                           ELSE /\ deserialization_buckets' =
                                      [deserialization_buckets EXCEPT ![bi] = clear(@)]
                                /\ bi' = bi + 1
                                /\ pc' = after
             ELSE /\ deserialization_buckets' =
                        [deserialization_buckets EXCEPT ![bi] = clear(@)]
                  /\ bi' = bi + 1
                  /\ pc' = after
                  /\ converted' = <<>>
                  /\ batch' = NoCall
                  /\ UNCHANGED <<seen_keys, model, produced, error>>
    /\ UNCHANGED <<nread, state_dict, default_bucket, module_keys, tensor_to_param_converter,
                   state_dicts, split_run>>

\* One iteration of "for bucket in deserialization_buckets"
ProcessBucket ==
    /\ pc = "buckets"
    /\ LET bucket == deserialization_buckets[bi]
           after == IF bi = Len(deserialization_buckets) THEN "for_state_dict" ELSE "buckets"
       IN  IF ready(bucket)
             THEN LET r == convert_and_load_state_dict(bucket.items, seen_keys, model,
                                                       tensor_to_param_converter)
                  IN  /\ seen_keys' = r.seen_keys
                      /\ model' = r.model
                      /\ converted' = r.converted
                      /\ batch' = Call(bi, bucket.items, r.walked)
                      /\ produced' = Count(produced, r.converted)
                      /\ error' = r.err
                      /\ IF r.err # NoError
                           THEN /\ pc' = "raised"
                                /\ UNCHANGED <<deserialization_buckets, bi>>
                           ELSE /\ deserialization_buckets' =
                                      [deserialization_buckets EXCEPT ![bi] = clear(@)]
                                /\ bi' = bi + 1
                                /\ pc' = after
             ELSE /\ bi' = bi + 1
                  /\ pc' = after
                  /\ converted' = <<>>
                  /\ batch' = NoCall
                  /\ UNCHANGED <<seen_keys, model, produced, error, deserialization_buckets>>
    /\ UNCHANGED <<nread, state_dict, default_bucket, module_keys, tensor_to_param_converter,
                   state_dicts, split_run>>

\* missing_keys with the difference taken the wrong way round
missing_keys_Reversed(mkeys, seen) == seen \ mkeys

\* module_keys.difference(seen_keys)
missing_keys(mkeys, seen) == mkeys \ seen

\* any_bucket_not_empty asking bucket.ready() where it should ask len(bucket)
any_bucket_not_empty_Ready(buckets) ==
    \E i \in DOMAIN buckets : Len(buckets[i].items) # 0 /\ ready(buckets[i])

\* any(len(bucket) for bucket in deserialization_buckets)
any_bucket_not_empty(buckets) == \E i \in DOMAIN buckets : Len(buckets[i].items) # 0

\* The checks after the loop: missing keys, then leftover buckets
CheckKeys ==
    /\ pc = "check"
    /\ IF Cardinality(missing_keys(module_keys, seen_keys)) # 0
         THEN /\ error' = Raise("missing_keys", <<>>)
              /\ pc' = "raised"
       ELSE IF any_bucket_not_empty(deserialization_buckets)
         THEN /\ error' = Raise("buckets_not_empty", <<>>)
              /\ pc' = "raised"
       ELSE /\ error' = NoError
            /\ pc' = "returned"
    /\ UNCHANGED <<nread, state_dict, default_bucket, deserialization_buckets, bi, seen_keys,
                   module_keys, model, tensor_to_param_converter, converted, batch, produced,
                   state_dicts, split_run>>

Next ==
    \/ LoadStateDict
    \/ Exhausted
    \/ SortIntoBucket
    \/ ConvertDefaultBucket
    \/ ProcessBucket
    \/ CheckKeys

Spec == Init /\ [][Next]_vars

-----------------------------------------------------------------------------
\* Two loads of the same tensors into a fresh model: from two checkpoint
\* files that split them, and then from one file that holds them all.

\* The load is over
Terminal == pc \in {"returned", "raised"}

\* Every key of the shard goes to the default bucket
DefaultOnly(buckets, sd) ==
    \A i \in DOMAIN sd : \A j \in DOMAIN buckets : ~match(buckets[j], sd[i].k)

InitSplit ==
    /\ Start
    /\ deserialization_buckets \in BucketConfigs
    /\ tensor_to_param_converter \in Converters
    /\ \E s1, s2 \in Shards :
         /\ Keys(s1) \cap Keys(s2) = {}
         /\ DefaultOnly(deserialization_buckets, s1 \o s2)
         /\ state_dicts = Given(<<s1, s2>>)
         /\ \E joined \in {s1 \o s2, s2 \o s1} :
               split_run = [NoSplitRun EXCEPT !.shards = <<s1, s2>>, !.combined = joined]

\* The first load is over: keep its outcome and call load_model_from_checkpoints
\* on a fresh model, with fresh buckets, for the combined file.
LoadCombined ==
    /\ Terminal
    /\ state_dicts.given
    /\ ~split_run.done
    /\ split_run' = [split_run EXCEPT !.done = TRUE, !.pc = pc, !.error = error,
                                      !.model = model, !.seen_keys = seen_keys]
    /\ state_dicts' = Given(<<split_run.combined>>)
    /\ deserialization_buckets' =
          [i \in DOMAIN deserialization_buckets |-> clear(deserialization_buckets[i])]
    /\ pc' = "for_state_dict"
    /\ error' = NoError
    /\ nread' = 0
    /\ state_dict' = <<>>
    /\ default_bucket' = <<>>
    /\ bi' = 1
    /\ seen_keys' = {}
    /\ model' = DestinationModel
    /\ converted' = <<>>
    /\ batch' = NoCall
    /\ produced' = <<>>
    /\ UNCHANGED <<module_keys, tensor_to_param_converter>>

NextCombined ==
    \/ Next
    \/ LoadCombined

SpecCombined == InitSplit /\ [][NextCombined]_vars

-----------------------------------------------------------------------------
\* Vocabulary of the properties

\* The parameter and buffer slots of a model: [key, module, name, kind, persistent, value]
Slots(mdl) ==
    UNION { {[key |-> p \o DOT \o mdl[p]._parameters[i].k, module |-> p,
              name |-> mdl[p]._parameters[i].k, kind |-> "parameter", persistent |-> TRUE,
              value |-> mdl[p]._parameters[i].v] : i \in DOMAIN mdl[p]._parameters}
       \cup {[key |-> p \o DOT \o mdl[p]._buffers[i].k, module |-> p,
              name |-> mdl[p]._buffers[i].k, kind |-> "buffer",
              persistent |-> mdl[p]._buffers[i].k \notin mdl[p]._non_persistent_buffers_set,
              value |-> mdl[p]._buffers[i].v] : i \in DOMAIN mdl[p]._buffers}
       : p \in DOMAIN mdl }

\* The slot a snapshot key names
SlotOf(mdl, key) == CHOOSE sl \in Slots(mdl) : sl.key = key

\* A key under some module's prefix that names no parameter and no persistent buffer
Orphaned(key) ==
    /\ \E p \in DOMAIN DestinationModel : StartsWith(key, p \o DOT)
    /\ key \notin {sl.key : sl \in {x \in Slots(DestinationModel) : x.persistent}}

\* Every expected fragment of the bucket occurs in one of the keys
AllFragmentsIn(bucket, keys) ==
    \A expected \in bucket.expected_keys : \E key \in keys : IsSubstring(expected, key)

Covered == module_keys \subseteq seen_keys
Drained == \A i \in DOMAIN deserialization_buckets : deserialization_buckets[i].items = <<>>

\* The step makes a state_dict_converter call
Converts == pc \in {"convert_default", "buckets"} /\ batch' # NoCall

-----------------------------------------------------------------------------
\* C1: the load returns normally only from the final checks, and only when
\* every key of the snapshot taken before the first shard is in seen_keys and
\* every configured bucket is empty; when the final checks are reached in any
\* other case the load raises.
C1_ReturnsIffCoveredAndDrained ==
    [][ /\ module_keys = StateDictKeys(DestinationModel)
        /\ pc' = "returned" => pc = "check" /\ Covered /\ Drained
        /\ pc = "check" /\ ~(Covered /\ Drained) => pc' = "raised" ]_vars

C1_Witness == pc = "returned" /\ nread = MaxShards

\* C2: classifying a key that two or more configured buckets accept raises the
\* configuration-conflict error naming the key, in whichever shard it occurs,
\* and a load that has raised never goes on to return.
ConflictAtHead ==
    /\ pc = "sort"
    /\ Cardinality({i \in DOMAIN deserialization_buckets :
                      match(deserialization_buckets[i], Head(state_dict).k)}) >= 2

C2_ConflictAlwaysRaises ==
    [][ /\ ConflictAtHead =>
              /\ pc' = "raised"
              /\ error' = Raise("multiple_buckets", Head(state_dict).k)
        /\ pc # "raised" ]_vars

C2_Witness ==
    /\ pc = "raised" /\ error.kind = "multiple_buckets" /\ nread = 2 /\ seen_keys # {}

\* C3: the converter is called on a pattern-grouped bucket only when every
\* expected fragment is a substring of a key accumulated in it; while a
\* fragment is absent the bucket is not converted and keeps its contents.
C3_ConvertedOnlyWhenAllFragmentsPresent ==
    [][ /\ batch'.from >= 1 =>
              /\ pc = "buckets" /\ batch'.from = bi
              /\ batch'.items = deserialization_buckets[bi].items
              /\ AllFragmentsIn(deserialization_buckets[bi], Keys(batch'.items))
        /\ (pc = "buckets" /\ ~AllFragmentsIn(deserialization_buckets[bi],
                                              Keys(deserialization_buckets[bi].items))) =>
              /\ batch' = NoCall
              /\ deserialization_buckets' = deserialization_buckets ]_vars

\* The bucket converted holds x.k from an earlier shard than x.q (a file
\* stores q before k).
C3_Witness ==
    /\ batch.from >= 1
    /\ Len(batch.items) = 2
    /\ batch.items[1].k = <<"x", ".", "k">>
    /\ batch.items[2].k = <<"x", ".", "q">>

\* C4: when the shards are exhausted while a pattern-grouped bucket holds only
\* part of its expected fragments, the load raises: the missing-keys error,
\* whose check comes first, if a snapshot key is not in seen_keys, and the
\* incomplete-bucket error otherwise.
PartialBucket(bucket) ==
    /\ \E expected \in bucket.expected_keys :
          \E key \in Keys(bucket.items) : IsSubstring(expected, key)
    /\ ~AllFragmentsIn(bucket, Keys(bucket.items))

SomePartialBucket ==
    \E i \in DOMAIN deserialization_buckets : PartialBucket(deserialization_buckets[i])

C4_PartialBucketFailsTheLoad ==
    [][ (pc = "check" /\ SomePartialBucket) =>
            /\ pc' = "raised"
            /\ error'.kind = IF Covered THEN "buckets_not_empty" ELSE "missing_keys" ]_vars

C4_Witness ==
    pc = "raised" /\ error.kind = "buckets_not_empty" /\ SomePartialBucket

\* C4 as claimed: the load then fails with the incomplete-bucket error.
C4_Claimed ==
    [][ (pc = "check" /\ SomePartialBucket) =>
            /\ pc' = "raised"
            /\ error'.kind = "buckets_not_empty" ]_vars

\* C5: a converted key under a module's prefix that names no parameter and no
\* persistent buffer is skipped: it is recorded in seen_keys, and the slots and
\* the outcome of the conversion are those of the batch without such keys, so
\* a batch of such keys only changes nothing and raises nothing.
NotOrphaned(sd) == SelectSeq(sd, LAMBDA e : ~Orphaned(e.k))
SomeOrphaned(sd) == \E key \in Keys(sd) : Orphaned(key)

Mismatch(old, new) == old.shape # new.shape \/ old.dtype # new.dtype

\* The slots with data for which the state dict holds a tensor that does not fit
Misfits(mdl, sd) ==
    {sl \in Slots(mdl) : /\ sl.persistent
                          /\ sl.value # None
                          /\ sl.key \in Keys(sd)
                          /\ Mismatch(sl.value, Val(sd, sl.key))}

C6_MismatchAbortsTheLoad ==
    [][ /\ pc # "raised"
        /\ (Converts /\ tensor_to_param_converter = "default") =>
              \A sl \in Misfits(model, converted') :
                  /\ pc' = "raised"
                  /\ error'.kind \in {"shape_mismatch", "dtype_mismatch", "no_data"}
                  /\ error'.kind = "no_data" => <<"m", ".", "n">> \in Keys(converted')
                  /\ SlotOf(model', sl.key).value = sl.value ]_vars

C6_Witness ==
    /\ pc = "raised"
    /\ error.kind = "dtype_mismatch"
    /\ tensor_to_param_converter = "default"
    /\ nread = 1
    /\ SlotOf(model, <<"m", ".", "w">>).value.src # {}

\* C7: when the load returns, every key of the snapshot was output by at
\* least one converter call and its slot holds checkpoint data; a key output
\* by several calls is installed each time.
Populated(key) ==
    /\ key \in DOMAIN produced
    /\ produced[key].n >= 1
    /\ SlotOf(model, key).value.src # {}

C7_ReturnedMeansEverySlotPopulated ==
    pc = "returned" => \A key \in module_keys : Populated(key)

C7_Witness ==
    pc = "returned" /\ \E key \in module_keys : produced[key].n >= 2

\* C7 as claimed: when the load returns, every key of the snapshot was output
\* by exactly one converter call.
C7_Claimed ==
    pc = "returned" =>
        \A key \in module_keys : key \in DOMAIN produced /\ produced[key].n = 1

\* C8: for keys that no bucket matches and no two of which the converter
\* fuses into one destination key, the load from two shards that split them
\* and the load from one shard holding them all both return or both raise, and
\* when they return they leave the same tensor in every slot and the same
\* seen_keys.
NoFusion(sd) ==
    \A i, j \in DOMAIN sd : i # j => ConvertKey(sd[i].k) # ConvertKey(sd[j].k)

BothLoadsOver == split_run.done /\ Terminal

SameOutcome ==
    /\ split_run.pc = pc
    /\ pc = "returned" => model = split_run.model /\ seen_keys = split_run.seen_keys

C8_SplitLoadsAsCombined ==
    (BothLoadsOver /\ NoFusion(split_run.combined)) => SameOutcome

C8_Witness ==
    /\ BothLoadsOver
    /\ NoFusion(split_run.combined)
    /\ pc = "returned"
    /\ split_run.pc = "returned"
    /\ tensor_to_param_converter = "default"
    /\ Len(split_run.shards[1]) > 0
    /\ Len(split_run.shards[2]) > 0

\* C8 as claimed: the two loads have the same outcome whatever the keys.
C8_Claimed == BothLoadsOver => SameOutcome

\* C9: with the default converter, a load in which every key of the snapshot
\* is output by exactly one converter call, with the shape and dtype of its
\* slot, either returns with every such slot holding the tensor output for its
\* key and its requires_grad flag kept, or raises for one of three reasons the
\* outputs do not exclude: a key matched by several buckets, a bucket left
\* with tensors, or an output key that names a registered slot without data.
\* The other errors contradict the premise: the missing-keys error means a
\* snapshot key was never output, a mismatch error that an output did not fit.
ProducedOnceAndFitting ==
    \A key \in module_keys :
        /\ key \in DOMAIN produced
        /\ produced[key].n = 1
        /\ ~Mismatch(SlotOf(DestinationModel, key).value, produced[key].tensor)

SlotsHoldProduced ==
    \A key \in module_keys :
        LET value == SlotOf(model, key).value
            tensor == produced[key].tensor
        IN  /\ value.src = tensor.src
            /\ value.shape = tensor.shape
            /\ value.dtype = tensor.dtype
            /\ value.rg = SlotOf(DestinationModel, key).value.rg

C9_CoveredOnceLoadsEverySlot ==
    /\ (Terminal /\ ProducedOnceAndFitting /\ tensor_to_param_converter = "default") =>
          \/ pc = "returned" /\ SlotsHoldProduced
          \/ pc = "raised"
               /\ error.kind \in {"multiple_buckets", "buckets_not_empty", "no_data"}
    /\ (pc = "raised" /\ error.kind = "missing_keys") =>
          \E key \in module_keys : key \notin DOMAIN produced
    /\ (pc = "raised" /\ error.kind \in {"shape_mismatch", "dtype_mismatch"}) =>
          Misfits(DestinationModel, converted) # {}

C9_Witness ==
    /\ pc = "returned"
    /\ ProducedOnceAndFitting
    /\ tensor_to_param_converter = "default"
    /\ nread = 2
    /\ \E i \in DOMAIN deserialization_buckets :
          deserialization_buckets[i].expected_keys \subseteq
              {SubSeq(key, 3, 3) : key \in UNION {t.src : t \in {produced[k].tensor : k \in module_keys}}}

\* C9 as claimed, for the loads that reach the final checks: such a load
\* returns.
C9_Claimed ==
    [][ (pc = "check" /\ ProducedOnceAndFitting) => pc' = "returned" ]_vars

\* C10: ready() is true exactly when the bucket holds as many keys as there
\* are expected fragments and every expected fragment is a substring of one
\* of its keys.
C10_ReadyIffSizeAndFragments ==
    \A i \in DOMAIN deserialization_buckets :
        LET bucket == deserialization_buckets[i]
        IN  ready(bucket) <=>
               /\ Len(bucket.items) = Cardinality(bucket.expected_keys)
               /\ \A expected \in bucket.expected_keys :
                     \E j \in DOMAIN bucket.items : IsSubstring(expected, bucket.items[j].k)

\* A bucket of the expected size in which a fragment is absent
C10_Witness ==
    \E i \in DOMAIN deserialization_buckets :
        LET bucket == deserialization_buckets[i]
        IN  /\ Len(bucket.items) = Cardinality(bucket.expected_keys)
            /\ \E expected \in bucket.expected_keys :
                  \A j \in DOMAIN bucket.items : ~IsSubstring(expected, bucket.items[j].k)
            /\ ~ready(bucket)

\* C11: when a bucket is ready, every expected fragment can be assigned an
\* accumulated key that contains it; the assignment can be made one-to-one,
\* leaving no accumulated key without a fragment, when no accumulated key
\* contains two of the expected fragments.
Assignments(bucket) ==
    {f \in [bucket.expected_keys -> Keys(bucket.items)] :
        \A expected \in bucket.expected_keys : IsSubstring(expected, f[expected])}

OneToOne(f, keys) ==
    /\ \A a, b \in DOMAIN f : a # b => f[a] # f[b]
    /\ {f[a] : a \in DOMAIN f} = keys

KeyHoldsTwo(bucket) ==
    \E key \in Keys(bucket.items) : \E a, b \in bucket.expected_keys :
        a # b /\ IsSubstring(a, key) /\ IsSubstring(b, key)

C11_ReadyAssignsFragmentsToKeys ==
    \A i \in DOMAIN deserialization_buckets :
        LET bucket == deserialization_buckets[i]
        IN  ready(bucket) =>
               /\ Assignments(bucket) # {}
               /\ ~KeyHoldsTwo(bucket) =>
                     \E f \in Assignments(bucket) : OneToOne(f, Keys(bucket.items))

\* A ready bucket of two keys, each holding one expected fragment
C11_Witness ==
    \E i \in DOMAIN deserialization_buckets :
        LET bucket == deserialization_buckets[i]
        IN  /\ ready(bucket)
            /\ Len(bucket.items) = 2
            /\ ~KeyHoldsTwo(bucket)

\* C11 as claimed: a ready bucket always has a one-to-one assignment.
C11_Claimed ==
    \A i \in DOMAIN deserialization_buckets :
        LET bucket == deserialization_buckets[i]
        IN  ready(bucket) =>
               \E f \in Assignments(bucket) : OneToOne(f, Keys(bucket.items))

\* C12: a converter call is made only when every pair of the shard has been
\* sorted into a bucket; the first call of a shard is on the default bucket,
\* which is then cleared; the configured buckets follow in list order, each
\* converted and cleared exactly when ready() holds for it at its turn.
C12_SortThenDefaultThenBucketsInOrder ==
    [][ /\ batch' # NoCall => pc \in {"convert_default", "buckets"} /\ state_dict = <<>>
        /\ pc = "sort" =>
              /\ batch' = NoCall
              /\ pc' \in {"sort", "convert_default", "raised"}
              /\ pc' = "convert_default" <=> (state_dict' = <<>> /\ error' = NoError)
        /\ pc = "convert_default" =>
              /\ batch'.from = 0 /\ batch'.items = default_bucket
              /\ deserialization_buckets' = deserialization_buckets
              /\ pc' # "raised" =>
                    /\ default_bucket' = <<>>
                    /\ bi' = 1
                    /\ pc' = IF Len(deserialization_buckets) = 0
                               THEN "for_state_dict" ELSE "buckets"
        /\ pc = "buckets" =>
              LET bucket == deserialization_buckets[bi]
              IN  /\ ready(bucket) <=> (batch'.from = bi /\ batch'.items = bucket.items)
                  /\ ~ready(bucket) => batch' = NoCall
                  /\ default_bucket' = <<>>
                  /\ pc' # "raised" =>
                        /\ deserialization_buckets' =
                              [deserialization_buckets EXCEPT
                                  ![bi].items = IF ready(bucket) THEN <<>> ELSE @]
                        /\ bi' = bi + 1
                        /\ pc' = IF bi = Len(deserialization_buckets)
                                   THEN "for_state_dict" ELSE "buckets" ]_vars

\* In the second shard the default bucket was converted, the first bucket was
\* not ready at its turn and the second one was converted.
C12_Witness ==
    /\ pc = "for_state_dict"
    /\ nread = 2
    /\ batch.from = 2
    /\ error = NoError
    /\ deserialization_buckets[1].items # <<>>
    /\ <<"m", ".", "w">> \in seen_keys

\* C13: the end-of-shard steps leave a bucket that is not ready as it is: its
\* own turn in the bucket loop, the conversion of the default bucket, the
\* turns of the other buckets and the reading of the next shard do not change
\* its pairs, and while the next shard is sorted the pairs it holds stay in
\* place (a pair of the same key takes the new tensor).
C13_UnreadyBucketKeepsItsPairs ==
    [][ \A i \in DOMAIN deserialization_buckets :
          LET bucket == deserialization_buckets[i]
              items == bucket.items
              after == deserialization_buckets'[i].items
          IN  /\ (pc = "buckets" /\ i = bi /\ ~ready(bucket)) => after = items
              /\ (pc \in {"convert_default", "buckets", "for_state_dict"}
                    /\ ~(pc = "buckets" /\ i = bi)) => after = items
              /\ pc = "sort" =>
                    \A j \in DOMAIN items :
                        /\ j \in DOMAIN after
                        /\ after[j].k = items[j].k
                        /\ after[j].v # items[j].v => items[j].k = Head(state_dict).k ]_vars

\* The second shard starts with x.q while the bucket holds x.k of the first
\* shard (a file stores q before k).
C13_Witness ==
    /\ pc = "sort"
    /\ nread = 2
    /\ Head(state_dict).k = <<"x", ".", "q">>
    /\ Len(deserialization_buckets) >= 1
    /\ Keys(deserialization_buckets[1].items) = {<<"x", ".", "k">>}

\* C14: a shard is read only between shards, one at a time: when it is read
\* nothing has raised, every pair of the shard before it has been sorted, the
\* default bucket has been converted and cleared and no configured bucket is
\* ready (the ready ones have been converted and cleared); once the load has
\* raised no shard is read.
C14_ShardsOneAtATime ==
    [][ /\ nread' # nread =>
              /\ nread' = nread + 1
              /\ pc = "for_state_dict" /\ pc' \in {"sort", "convert_default"}
              /\ error = NoError
              /\ state_dict = <<>>
              /\ default_bucket = <<>>
              /\ \A i \in DOMAIN deserialization_buckets : ~ready(deserialization_buckets[i])
        /\ pc = "raised" => nread' = nread /\ pc' = "raised" ]_vars

\* The second shard has just been read, after the bucket of q and k was
\* converted and installed at the end of the first.
C14_Witness ==
    /\ pc = "sort"
    /\ nread = 2
    /\ batch = NoCall
    /\ <<"m", ".", "a", ".", "q">> \in seen_keys
    /\ SlotOf(model, <<"m", ".", "a", ".", "q">>).value.src = {<<"x", ".", "q">>, <<"x", ".", "k">>}
    /\ Drained

\* C15: a converter call that returns an empty mapping changes nothing:
\* seen_keys and the model stay as they are, nothing is raised and the module
\* tree is not walked; after any other call the tree is walked.
C15_EmptyConversionIsNoOp ==
    [][ Converts =>
          IF Len(converted') = 0
            THEN /\ seen_keys' = seen_keys
                 /\ model' = model
                 /\ produced' = produced
                 /\ ~batch'.walked
                 /\ error' = NoError /\ pc' # "raised"
            ELSE batch'.walked ]_vars

\* An empty conversion in the second shard, after the first installed tensors
C15_Witness ==
    /\ batch.from = 0
    /\ Len(converted) = 0
    /\ ~batch.walked
    /\ nread = 2
    /\ seen_keys # {}
    /\ \E sl \in Slots(model) : sl.value.src # {}

\* C16: installing a converted tensor calls tensor_to_param_converter exactly
\* when the slot is a parameter, and the slot then holds what the converter
\* returned; a buffer slot takes the tensor as supplied, after it passed the
\* shape and dtype validation, and a buffer tensor that fails the validation
\* makes the conversion raise whichever converter was passed.
PluggableConverter(module, module_prefix, parameter_name, tensor) ==
    IF tensor_to_param_converter = "default"
      THEN default_tensor_to_parameter_converter(module, module_prefix, parameter_name, tensor)
      ELSE custom_tensor_to_parameter_converter(module, module_prefix, parameter_name, tensor)

\* The slots a converted state dict holds a tensor for
Targets(mdl, sd) == {sl \in Slots(mdl) : sl.persistent /\ sl.key \in Keys(sd)}

C16_ConverterForParametersOnly ==
    [][ Converts =>
          \A sl \in Targets(model, converted') :
              LET tensor == Val(converted', sl.key)
                  r == _emplace_module_tensor(model[sl.module], sl.module, sl.name, tensor,
                                              tensor_to_param_converter)
                  now == SlotOf(model', sl.key).value
              IN  /\ sl.value # None => (r.invoked <=> sl.kind = "parameter")
                  /\ (sl.kind = "parameter" /\ pc' # "raised") =>
                        now = PluggableConverter(model[sl.module], sl.module,
                                                 sl.name, tensor).value
                  /\ (sl.kind = "buffer" /\ pc' # "raised") =>
                        /\ now = tensor
                        /\ _validate_replacement(sl.value, tensor, sl.key) = NoError
                  /\ (sl.kind = "buffer" /\ Mismatch(sl.value, tensor)) =>
                        pc' = "raised" /\ now = sl.value ]_vars

\* One conversion with the caller's converter installed both the parameter
\* m.w, as the converter returned it, and the buffer m.b, as supplied.
C16_Witness ==
    /\ batch # NoCall
    /\ error = NoError
    /\ tensor_to_param_converter = "custom"
    /\ {<<"m", ".", "w">>, <<"m", ".", "b">>} \subseteq Keys(converted)
    /\ SlotOf(model, <<"m", ".", "w">>).value.dtype = INT8
    /\ SlotOf(model, <<"m", ".", "b">>).value = Val(converted, <<"m", ".", "b">>)

\* C17: a shape or dtype mismatch error names the fully-qualified key (module
\* prefix, dot, local name) of a slot for which the converted state dict holds
\* a tensor that does not fit, be the slot a parameter or a buffer.
C17_Claimed ==
    [][ (Converts /\ error'.kind \in {"shape_mismatch", "dtype_mismatch"}) =>
            \E sl \in Misfits(model, converted') : error'.name = sl.key ]_vars

\* C18: no key is held by two buckets: the configured buckets hold disjoint
\* key sets, each key in a configured bucket is matched by that bucket,
\* and no configured bucket matches a key held by the default bucket.
C18_NoKeyInTwoBuckets ==
    /\ \A i, j \in DOMAIN deserialization_buckets :
          i # j => Keys(deserialization_buckets[i].items)
                      \cap Keys(deserialization_buckets[j].items) = {}
    /\ \A i, j \in DOMAIN deserialization_buckets :
          \A key \in Keys(deserialization_buckets[i].items) :
              match(deserialization_buckets[j], key) <=> i = j
    /\ \A key \in Keys(default_bucket) :
          \A i \in DOMAIN deserialization_buckets : ~match(deserialization_buckets[i], key)

\* The pairs of one shard went to the default bucket and to two configured
\* buckets.
C18_Witness ==
    /\ default_bucket # <<>>
    /\ Len(deserialization_buckets) = 2
    /\ deserialization_buckets[1].items # <<>>
    /\ deserialization_buckets[2].items # <<>>

\* C19: a configured bucket is empty right after the step that converted it,
\* whatever the converter returned, and it is converted whenever it is ready
\* at its turn again: the pairs of a later shard make it ready and it is
\* converted a second time in the same load.
C19_ConvertedBucketIsEmptied ==
    [][ \A i \in DOMAIN deserialization_buckets :
          (pc = "buckets" /\ batch'.from = i /\ pc' # "raised") =>
              /\ i = bi
              /\ ready(deserialization_buckets[i])
              /\ deserialization_buckets'[i].items = <<>>
              /\ deserialization_buckets'[i].pattern = deserialization_buckets[i].pattern
              /\ deserialization_buckets'[i].expected_keys =
                    deserialization_buckets[i].expected_keys ]_vars

\* The bucket of r has just been converted for the second time: both shards
\* held x.r, which only this bucket takes.
C19_Witness ==
    /\ Len(deserialization_buckets) = 2
    /\ batch.from = 2
    /\ nread = 2
    /\ error = NoError
    /\ deserialization_buckets[2].items = <<>>
    /\ <<"m", ".", "r">> \in DOMAIN produced
    /\ produced[<<"m", ".", "r">>].n = 2

\* C20: from the reading of a shard to the end of its sorting no converter call
\* is made and the model, seen_keys and the converter outputs stay as the
\* shard before left them; the configuration-conflict error is raised only
\* there, so when it is raised nothing of the shard has been converted or
\* installed.
C20_ConflictLeavesModelAsBeforeTheShard ==
    [][ /\ (pc = "sort" \/ nread' # nread) =>
              /\ batch' = NoCall
              /\ model' = model
              /\ seen_keys' = seen_keys
              /\ produced' = produced
        /\ error'.kind = "multiple_buckets" =>
              /\ pc = "sort" /\ pc' = "raised"
              /\ deserialization_buckets' = deserialization_buckets
              /\ default_bucket' = default_bucket ]_vars

\* The conflict is raised in the second shard while a pair of that shard
\* waits, unconverted, in the default bucket.
C20_Witness ==
    /\ pc = "raised"
    /\ error.kind = "multiple_buckets"
    /\ nread = 2
    /\ default_bucket # <<>>
    /\ batch = NoCall
    /\ seen_keys # {}

====
